---- MODULE Spec2Model ----
(***************************************************************************)
(* A model of akirak/contributors (src/main.go): the ignore list, the      *)
(* glob filter, the per-language blame aggregation, the startup sequence   *)
(* of runApp and the HTTP handlers that render the report.                 *)
(*                                                                         *)
(* Text (a path, a glob pattern, a line of .contribignore) is a sequence   *)
(* of one-character strings, so that the regular expressions and the glob  *)
(* matcher are computed character by character.                            *)
(***************************************************************************)
EXTENDS Integers, Sequences, FiniteSets, TLC

VARIABLES
    ignoreFile,   \* <root>/.contribignore: [stat, lines]
    linguist,     \* the linguist subprocess: [ok, contents]
    blame,        \* per file: how `git blame --line-porcelain HEAD -- file` ends
    config,       \* Config (only Threshold is read by the model)
    clients,      \* the HTTP clients that will connect
    pc,           \* position of runApp
    err,          \* the error runApp returned ("" while none)
    contents,     \* runApp's local `contents`
    Result,       \* the *Result handed to serve: its LanguageStats
    nStats,       \* how many times getStats has run
    req,          \* per client: position of its handleHome call
    out,          \* per client: what handleHome has written so far
    args,         \* arguments of the function under test (function specifications)
    ret           \* its return value

vars == <<ignoreFile, linguist, blame, config, clients, pc, err, contents,
          Result, nStats, req, out, args, ret>>

envVars == <<ignoreFile, linguist, blame, config, clients>>
appVars == <<pc, err, contents, Result, nStats>>
reqVars == <<req, out>>
funVars == <<args, ret>>

----------------------------------------------------------------------------
(* Bounds *)

MaxIgnoreLines == 2
MaxBlameLines == 2
MaxRequests == 2
MaxPatterns == 2

----------------------------------------------------------------------------
(* Sequences *)

Range(s) == {s[i] : i \in 1..Len(s)}

SeqsUpTo(S, n) == UNION {[1..k -> S] : k \in 0..n}

Perms(S) == {p \in [1..Cardinality(S) -> S] : Range(p) = S}

RECURSIVE SumSeq(_)
SumSeq(s) == IF s = <<>> THEN 0 ELSE Head(s) + SumSeq(Tail(s))

Drop(s, n) == SubSeq(s, n + 1, Len(s))

----------------------------------------------------------------------------
(* getIgnoreSettings *)

\* what os.Stat / os.Open say of <root>/.contribignore
StatOk == "ok"
NoFile == "ENOENT"
Unreadable == "EACCES"
NoError == ""

\* Go regexp's \s : [\t\n\f\r ]
IsSpace(c) == c \in {" ", "\t", "\f", "\r"}

\* regexp `^(\s*#|\s+$)` : optional whitespace then '#', or one or more
\* whitespace characters up to the end of the line.
commentOrBlankRe(line) ==
    \/ \E i \in 1..Len(line) :
          /\ line[i] = "#"
          /\ \A j \in 1..(i - 1) : IsSpace(line[j])
    \/ /\ Len(line) >= 1
       /\ \A j \in 1..Len(line) : IsSpace(line[j])

\* the scanner loop: keep every line the regexp does not match
RECURSIVE scanIgnoreLines(_)
scanIgnoreLines(lines) ==
    IF lines = <<>> THEN <<>>
    ELSE IF ~commentOrBlankRe(Head(lines))
         THEN <<Head(lines)>> \o scanIgnoreLines(Tail(lines))
         ELSE scanIgnoreLines(Tail(lines))

\* ([]GlobPattern, error)
getIgnoreSettings(file) ==
    IF file.stat = NoFile THEN [patterns |-> <<>>, err |-> NoError]
    ELSE IF file.stat # StatOk THEN [patterns |-> <<>>, err |-> file.stat]
    ELSE [patterns |-> scanIgnoreLines(file.lines), err |-> NoError]

----------------------------------------------------------------------------
(* doublestar.Match, for patterns made of literals, '*', '**' and '['. *)

\* the components of a path, split at '/'
RECURSIVE splitPathOnSeparator(_)
splitPathOnSeparator(s) ==
    IF \E i \in 1..Len(s) : s[i] = "/"
    THEN LET i == CHOOSE k \in 1..Len(s) :
                     s[k] = "/" /\ \A j \in 1..(k - 1) : s[j] # "/"
         IN <<SubSeq(s, 1, i - 1)>> \o splitPathOnSeparator(Drop(s, i))
    ELSE <<s>>

MatchTrue == "match"
MatchFalse == "nomatch"
ErrBadPattern == "ErrBadPattern"

\* one path component against one pattern component.  '[' opens a character
\* class; the alphabet has no ']', so the class is never closed.
RECURSIVE matchComponent(_, _)
matchComponent(pattern, name) ==
    IF pattern = <<>> \/ name = <<>>
    THEN IF pattern = <<>> /\ name = <<>> THEN MatchTrue
         ELSE IF name = <<>> /\ pattern \in {<<"*">>, <<"*", "*">>} THEN MatchTrue
         ELSE MatchFalse
    ELSE IF Head(pattern) = "*"
    THEN IF Tail(pattern) = <<>> THEN MatchTrue
         ELSE IF \E k \in 0..(Len(name) - 1) :
                    matchComponent(Tail(pattern), Drop(name, k)) = MatchTrue
              THEN MatchTrue ELSE MatchFalse
    ELSE IF Head(pattern) = "["
    THEN ErrBadPattern
    ELSE IF Head(pattern) = Head(name)
    THEN matchComponent(Tail(pattern), Tail(name))
    ELSE MatchFalse

RECURSIVE doMatching(_, _)
doMatching(patternComponents, nameComponents) ==
    IF patternComponents = <<>> /\ nameComponents = <<>> THEN MatchTrue
    ELSE IF patternComponents = <<>> \/ nameComponents = <<>> THEN MatchFalse
    ELSE IF Head(patternComponents) = <<"*", "*">>
    THEN IF Tail(patternComponents) = <<>> THEN MatchTrue
         ELSE IF \E k \in 0..(Len(nameComponents) - 1) :
                    doMatching(Tail(patternComponents), Drop(nameComponents, k))
                        = MatchTrue
              THEN MatchTrue ELSE MatchFalse
    ELSE LET m == matchComponent(Head(patternComponents), Head(nameComponents))
         IN IF m # MatchTrue THEN m
            ELSE doMatching(Tail(patternComponents), Tail(nameComponents))

doublestarMatch(pattern, name) ==
    doMatching(splitPathOnSeparator(pattern), splitPathOnSeparator(name))

----------------------------------------------------------------------------
(* excludeWithGlob *)

matchPatternsNeverIgnored(ignorePatterns, file) ==
    IF \E j \in 1..Len(ignorePatterns) :
           doublestarMatch(ignorePatterns[j], file) = ErrBadPattern
    THEN ErrBadPattern ELSE "kept"

\* the inner loop over ignorePatterns for one file, from pattern j on:
\* "ignored", "kept", or the match error
RECURSIVE matchPatterns(_, _)
matchPatterns(ignorePatterns, file) ==
    IF ignorePatterns = <<>> THEN "kept"
    ELSE LET x == doublestarMatch(Head(ignorePatterns), file)
         IN IF x = ErrBadPattern THEN ErrBadPattern
            ELSE IF x = MatchTrue THEN "ignored"
            ELSE matchPatterns(Tail(ignorePatterns), file)

\* ([]string, error)
RECURSIVE excludeWithGlob(_, _)
excludeWithGlob(ignorePatterns, files) ==
    IF files = <<>> THEN [files |-> <<>>, err |-> NoError]
    ELSE LET m == matchPatterns(ignorePatterns, Head(files))
             rest == excludeWithGlob(ignorePatterns, Tail(files))
         IN IF m = ErrBadPattern THEN [files |-> <<>>, err |-> ErrBadPattern]
            ELSE IF rest.err # NoError THEN rest
            ELSE IF m = "kept"
                 THEN [files |-> <<Head(files)>> \o rest.files, err |-> NoError]
                 ELSE rest

----------------------------------------------------------------------------
(* sort.Sort on fewer than 12 elements is an insertion sort: each element  *)
(* moves left while Less(it, its left neighbour).                          *)

\* less[i] is Less(x, sorted[i])
insertSorted(sorted, x, less) ==
    LET n == Len(sorted)
        j == CHOOSE k \in 1..(n + 1) :
                 /\ \A i \in k..n : less[i]
                 /\ (k = 1 \/ ~less[k - 1])
    IN SubSeq(sorted, 1, j - 1) \o <<x>> \o SubSeq(sorted, j, n)

ContributionsLessAscending(a, b) == a.Nlines < b.Nlines

\* Contributions.Less
ContributionsLess(a, b) == a.Nlines > b.Nlines

\* LanguageStats.Less
LanguageStatsLess(a, b) == a.TotalLines > b.TotalLines

\* sort.Sort(Contributions(s))
sortContributions(s) ==
    LET f[i \in 0..Len(s)] ==
            IF i = 0 THEN <<>>
            ELSE insertSorted(f[i - 1], s[i],
                     [k \in 1..(i - 1) |-> ContributionsLess(s[i], f[i - 1][k])])
    IN f[Len(s)]

\* sort.Sort(LanguageStats(s))
sortLanguageStats(s) ==
    LET f[i \in 0..Len(s)] ==
            IF i = 0 THEN <<>>
            ELSE insertSorted(f[i - 1], s[i],
                     [k \in 1..(i - 1) |-> LanguageStatsLess(s[i], f[i - 1][k])])
    IN f[Len(s)]

----------------------------------------------------------------------------
(* getContributions *)

\* float64(nlines) / float64(totalLines) * 100, kept as the exact fraction
\* num/den; den = 0 is the NaN of 0/0.
percentOf(nlines, totalLines) == [num |-> nlines * 100, den |-> totalLines]

\* what git blame --line-porcelain prints for a file whose lines are
\* attributed to attr[1], attr[2], ...: per line a header holding an
\* author-mail line, and the tab-prefixed content line
RECURSIVE porcelain(_)
porcelain(attr) ==
    IF attr = <<>> THEN <<>>
    ELSE << [key |-> "author-mail", mail |-> Head(attr)],
            [key |-> "content", mail |-> ""] >> \o porcelain(Tail(attr))

\* regexp `^author-mail <(.+)>` : the submatch needs at least one character
authorMailRe(line) == line.key = "author-mail" /\ line.mail # ""

\* a Go map holds only the keys that were assigned
mapPut(m, k, v) == [x \in (DOMAIN m) \cup {k} |-> IF x = k THEN v ELSE m[x]]

emptyMap == [x \in {} |-> 0]

countLineOverwrite(acc, line) ==
    IF authorMailRe(line)
    THEN [m |-> mapPut(acc.m, line.mail, 1), totalLines |-> acc.totalLines + 1]
    ELSE acc

\* the body of the scanner loop
countLine(acc, line) ==
    IF authorMailRe(line)
    THEN [m |-> IF line.mail \notin DOMAIN acc.m
                THEN mapPut(acc.m, line.mail, 1)
                ELSE mapPut(acc.m, line.mail, acc.m[line.mail] + 1),
          totalLines |-> acc.totalLines + 1]
    ELSE acc

scanBlame(acc, lines) ==
    LET f[i \in 0..Len(lines)] ==
            IF i = 0 THEN acc ELSE countLine(f[i - 1], lines[i])
    IN f[Len(lines)]

\* How one `git blame` subprocess ends.
\*   "ok":      it prints the porcelain of the file's attribution;
\*   "exit":    git starts and exits non-zero with nothing on stdout (the
\*              path is not in HEAD); cmd.Wait is never called, the scanner
\*              sees a plain end of file;
\*   "nostart": cmd.Start fails (its error is dropped) and closes the pipe,
\*              so the scanner's read fails and scanner.Err() is not nil.
blameStdout(b) == IF b.status = "ok" THEN porcelain(b.attr) ELSE <<>>

\* the loop over files: the accumulated (m, totalLines), or the error
RECURSIVE blameFiles(_, _, _)
blameFiles(acc, files, blm) ==
    IF files = <<>> THEN [acc |-> acc, err |-> NoError]
    ELSE IF blm[Head(files)].status = "nostart"
         THEN [acc |-> acc, err |-> "Error from scanner"]
         ELSE blameFiles(scanBlame(acc, blameStdout(blm[Head(files)])),
                         Tail(files), blm)

\* `for email, nlines := range m` visits the keys of m in an order of the
\* runtime's choosing: the keys of m as they come in `order`
rangeMap(m, order) ==
    LET f[i \in 0..Len(order)] ==
            IF i = 0 THEN <<>>
            ELSE IF order[i] \in DOMAIN m THEN Append(f[i - 1], order[i])
                 ELSE f[i - 1]
    IN f[Len(order)]

contributionsOf(m, totalLines, order) ==
    LET keys == rangeMap(m, order)
    IN [i \in 1..Len(keys) |->
           [Email |-> keys[i], Nlines |-> m[keys[i]],
            Percentage |-> percentOf(m[keys[i]], totalLines)]]

\* ([]Contribution, int, error)
getContributions(files, blm, order) ==
    LET r == blameFiles([m |-> emptyMap, totalLines |-> 0], files, blm)
    IN IF r.err # NoError
       THEN [contributions |-> <<>>, totalLines |-> 0, err |-> r.err]
       ELSE [contributions |->
                 sortContributions(contributionsOf(r.acc.m, r.acc.totalLines, order)),
             totalLines |-> r.acc.totalLines,
             err |-> NoError]

----------------------------------------------------------------------------
(* getStats *)

\* the loop over *contents, visiting the languages in langOrder; authOrder
\* gives, per language, the order in which getContributions ranges over m
RECURSIVE statsLoop(_, _, _, _, _)
statsLoop(langOrder, cont, ignorePatterns, blm, authOrder) ==
    IF langOrder = <<>> THEN [stats |-> <<>>, err |-> NoError]
    ELSE LET language == Head(langOrder)
             f == excludeWithGlob(ignorePatterns, cont[language])
             c == getContributions(f.files, blm, authOrder[language])
             rest == statsLoop(Tail(langOrder), cont, ignorePatterns, blm, authOrder)
         IN IF f.err # NoError THEN [stats |-> <<>>, err |-> f.err]
            ELSE IF c.err # NoError THEN [stats |-> <<>>, err |-> c.err]
            ELSE IF rest.err # NoError THEN rest
            ELSE [stats |-> << [Language |-> language,
                                Files |-> f.files,
                                TotalLines |-> c.totalLines,
                                Contributions |-> c.contributions] >>
                            \o rest.stats,
                  err |-> NoError]

\* ([]LanguageStat, error)
getStats(cont, ignFile, blm, langOrder, authOrder) ==
    LET ign == getIgnoreSettings(ignFile)
        r == statsLoop(langOrder, cont, ign.patterns, blm, authOrder)
    IN IF ign.err # NoError THEN [stats |-> <<>>, err |-> ign.err]
       ELSE IF r.err # NoError THEN r
       ELSE [stats |-> sortLanguageStats(r.stats), err |-> NoError]

----------------------------------------------------------------------------
(* Percentages as exact fractions.  The code computes them in float64;   *)
(* for line counts of this size the comparison with 10 agrees with the   *)
(* exact one (n/t*100 rounds to exactly 10 when 10n = t), and the error  *)
(* of a float64 is far below the last printed digit.                     *)

\* percent < k
percentLess(percent, k) == percent.num < k * percent.den

\* remainingPercentage -= percentage
percentSub(r, p) ==
    IF r.den = p.den THEN [num |-> r.num - p.num, den |-> r.den]
    ELSE [num |-> r.num * p.den - p.num * r.den, den |-> r.den * p.den]

\* a / b rounded to the nearest integer, a tie to the even one (Sprintf
\* rounds the binary value, which decides a decimal tie either way)
roundDiv(a, b) ==
    LET q == a \div b
        r == a % b
    IN IF 2 * r < b THEN q
       ELSE IF 2 * r > b THEN q + 1
       ELSE IF q % 2 = 0 THEN q ELSE q + 1

\* formatPercent: "%.2f" below 10, "%.1f" otherwise; the text is kept as
\* its digits and the number of decimals.  (A NaN compares false with 10.)
formatPercent(percent) ==
    IF percent.den = 0 THEN [decimals |-> 1, digits |-> 0, nan |-> TRUE]
    ELSE IF percentLess(percent, 10)
    THEN [decimals |-> 2, digits |-> roundDiv(percent.num * 100, percent.den),
          nan |-> FALSE]
    ELSE [decimals |-> 1, digits |-> roundDiv(percent.num * 10, percent.den),
          nan |-> FALSE]

\* the printed number, in hundredths
Hundredths(text) == IF text.decimals = 2 THEN text.digits ELSE text.digits * 10

----------------------------------------------------------------------------
(* The table of contributors with its "N others" row *)

remainingFromOffByOne(numContributors, i) == numContributors - i - 1

\* remainingContributors = numContributors - i
remainingFrom(numContributors, i) == numContributors - i

DefaultThreshold == 15
PeopleLines == 50
PeoplePercent == 10

\* peopleProfile: nlines < 50 && percentage < 10 && i < numContributors-1
peopleProfileStops(c, i, numContributors) ==
    /\ c.Nlines < PeopleLines
    /\ percentLess(c.Percentage, PeoplePercent)
    /\ i < numContributors - 1

languageStatStopsAtLast(c, j, numContributors, threshold) ==
    c.Nlines < threshold

\* languageStat: nlines < config.Threshold && j < numContributors-1
languageStatStops(c, j, numContributors, threshold) ==
    /\ c.Nlines < threshold
    /\ j < numContributors - 1

\* the loop over the sorted contributions (indices from 0, as in the code)
\* and the "N others" row after it; stops is the set of indices at which
\* the loop's break condition holds
tableOf(contributions, stops) ==
    LET numContributors == Len(contributions)
        k == IF stops = {} THEN numContributors
             ELSE CHOOSE i \in stops : \A j \in stops : i <= j
        remainingContributors ==
            IF stops = {} THEN 0 ELSE remainingFrom(numContributors, k)
        rem[i \in 0..k] ==
            IF i = 0 THEN [num |-> 100, den |-> 1]
            ELSE percentSub(rem[i - 1], contributions[i].Percentage)
    IN [rows |-> [i \in 1..k |->
                     [Email |-> contributions[i].Email,
                      Nlines |-> contributions[i].Nlines,
                      Percent |-> formatPercent(contributions[i].Percentage)]],
        remainingContributors |-> remainingContributors,
        remainingPercentage |-> rem[k],
        others |-> IF remainingContributors > 0
                   THEN << [N |-> remainingContributors,
                            Percent |-> formatPercent(rem[k])] >>
                   ELSE <<>>]

addContributionOverwrite(m, c) == mapPut(m, c.Email, c.Nlines)

\* peopleProfile: m[author] = nlines, or n + nlines
addContribution(m, c) ==
    IF c.Email \notin DOMAIN m THEN mapPut(m, c.Email, c.Nlines)
    ELSE mapPut(m, c.Email, m[c.Email] + c.Nlines)

\* peopleProfile's first loop: (m, totalLines) over all buckets
rollupOf(stats) ==
    LET inner(m, cs) ==
            LET g[j \in 0..Len(cs)] ==
                    IF j = 0 THEN m ELSE addContribution(g[j - 1], cs[j])
            IN g[Len(cs)]
        f[i \in 0..Len(stats)] ==
            IF i = 0 THEN [m |-> emptyMap, totalLines |-> 0]
            ELSE [m |-> inner(f[i - 1].m, stats[i].Contributions),
                  totalLines |-> f[i - 1].totalLines + stats[i].TotalLines]
    IN f[Len(stats)]

\* peopleProfile: the sorted rollup, and the table written from it
peopleProfile(stats, order) ==
    LET r == rollupOf(stats)
        contributions ==
            sortContributions(contributionsOf(r.m, r.totalLines, order))
        n == Len(contributions)
    IN [contributions |-> contributions,
        totalLines |-> r.totalLines,
        table |-> tableOf(contributions,
                     {i \in 0..(n - 1) :
                         peopleProfileStops(contributions[i + 1], i, n)})]

\* languageStat: the file list and the table of one bucket
languageStat(cfg, stat) ==
    LET n == Len(stat.Contributions)
    IN [Language |-> stat.Language,
        Files |-> stat.Files,
        table |-> tableOf(stat.Contributions,
                     {j \in 0..(n - 1) :
                         languageStatStops(stat.Contributions[j + 1], j, n,
                                           cfg.Threshold)})]

\* languageProfile: one row per bucket
languageProfile(stats) ==
    LET totalLines == SumSeq([i \in 1..Len(stats) |-> stats[i].TotalLines])
    IN [i \in 1..Len(stats) |->
           [Language |-> stats[i].Language,
            Files |-> Len(stats[i].Files),
            Lines |-> stats[i].TotalLines,
            Percent |-> formatPercent(percentOf(stats[i].TotalLines, totalLines))]]

----------------------------------------------------------------------------
(* The repositories the model is run on *)

FileA == <<"a">>
FileVB == <<"v", "/", "b">>
Files == {FileA, FileVB}

Languages == {"Go", "Markdown", "Nix"}

\* author-mail values; "" is a commit whose e-mail is empty
Authors == {"", "a@x", "b@x"}

\* the keys the map m of getContributions can hold
BlamedMails == {a \in Authors : authorMailRe([key |-> "author-mail", mail |-> a])}

\* lines of .contribignore
IgnoreLines ==
    { <<>>, <<" ">>, <<"#", "a">>, <<" ", "#">>, <<"a">>, <<"*">>,
      <<"v", "/", "*", "*">>, <<"*", "*">>, <<"[">> }

IgnoreFiles ==
    { [stat |-> NoFile, lines |-> <<>>], [stat |-> Unreadable, lines |-> <<>>] }
    \cup { [stat |-> StatOk, lines |-> l] : l \in SeqsUpTo(IgnoreLines, MaxIgnoreLines) }

\* the ignore files of the whole-program runs
RunIgnoreFiles ==
    { [stat |-> NoFile, lines |-> <<>>], [stat |-> Unreadable, lines |-> <<>>] }
    \cup { [stat |-> StatOk, lines |-> l] :
             l \in { << <<>> >>, << <<"*">> >>, << <<"[">> >>,
                     << <<"#", "a">>, <<"v", "/", "*", "*">> >> } }

ClassifierOutputs ==
    { [ok |-> FALSE, contents |-> <<>>],
      [ok |-> TRUE, contents |-> [l \in {"Go"} |-> <<FileA, FileVB>>]],
      [ok |-> TRUE, contents |->
          [l \in {"Go", "Markdown"} |-> IF l = "Go" THEN <<FileVB>> ELSE <<FileA>>]],
      [ok |-> TRUE, contents |->
          [l \in {"Go", "Markdown", "Nix"} |->
              IF l = "Go" THEN <<FileA>>
              ELSE IF l = "Markdown" THEN <<FileVB>> ELSE <<>>]] }

BlameOutcomes ==
    { [status |-> "ok", attr |-> a] : a \in SeqsUpTo(Authors, MaxBlameLines) }
    \cup { [status |-> "exit", attr |-> <<>>], [status |-> "nostart", attr |-> <<>>] }

Clients == 1..MaxRequests

NoTable == [rows |-> <<>>, remainingContributors |-> 0,
            remainingPercentage |-> [num |-> 100, den |-> 1], others |-> <<>>]

NoOutput == [languages |-> <<>>,
             people |-> [contributions |-> <<>>, totalLines |-> 0, table |-> NoTable],
             stats |-> <<>>]

Idle == [at |-> "idle", i |-> 0]

----------------------------------------------------------------------------
(* runApp *)

InitApp ==
    /\ pc = "runLinguist"
    /\ err = NoError
    /\ contents = <<>>
    /\ Result = <<>>
    /\ nStats = 0
    /\ req = [c \in Clients |-> Idle]
    /\ out = [c \in Clients |-> NoOutput]
    /\ args = <<>>
    /\ ret = <<>>

\* a run of the program, with one client sending a request
Init ==
    /\ ignoreFile \in RunIgnoreFiles
    /\ linguist \in ClassifierOutputs
    /\ blame \in [Files -> BlameOutcomes]
    /\ config = [Threshold |-> DefaultThreshold]
    /\ clients = {1}
    /\ InitApp

\* blame outcomes of the runs with concurrent requests
ServeBlameOutcomes ==
    { b \in BlameOutcomes : b.attr \in {<<>>, <<"a@x">>, <<"b@x", "a@x">>} }

\* a run of the program, with MaxRequests clients sending requests
InitServe ==
    /\ ignoreFile \in RunIgnoreFiles
    /\ linguist \in ClassifierOutputs
    /\ blame \in [Files -> ServeBlameOutcomes]
    /\ config = [Threshold |-> DefaultThreshold]
    /\ clients = Clients
    /\ InitApp

\* contents, linguistError := runLinguist(config.Root)
RunLinguist ==
    /\ pc = "runLinguist"
    /\ IF ~linguist.ok
       THEN /\ pc' = "exit"
            /\ err' = "Linguist failed"
            /\ UNCHANGED contents
       ELSE /\ pc' = "getStats"
            /\ contents' = linguist.contents
            /\ UNCHANGED err
    /\ UNCHANGED <<Result, nStats>>
    /\ UNCHANGED <<envVars, reqVars, funVars>>

afterGetStatsIgnoringError(statsError) == "serve"

\* if statsError != nil { return ... }
afterGetStats(statsError) == IF statsError # NoError THEN "exit" ELSE "serve"

\* stats, statsError := getStats(config.Root, &contents); result := &Result{...}
GetStats ==
    /\ pc = "getStats"
    /\ \E langOrder \in Perms(DOMAIN contents) :
       \E authOrder \in [DOMAIN contents -> Perms(BlamedMails)] :
          LET r == getStats(contents, ignoreFile, blame, langOrder, authOrder)
          IN /\ pc' = afterGetStats(r.err)
             /\ err' = r.err
             /\ Result' = r.stats
    /\ nStats' = nStats + 1
    /\ UNCHANGED contents
    /\ UNCHANGED <<envVars, reqVars, funVars>>

\* serve: http.HandleFunc and http.ListenAndServe, which returns only on error
Serve ==
    /\ pc = "serve"
    /\ \/ pc' = "listening" /\ UNCHANGED err
       \/ pc' = "exit" /\ err' = "listen"
    /\ UNCHANGED <<contents, Result, nStats>>
    /\ UNCHANGED <<envVars, reqVars, funVars>>

----------------------------------------------------------------------------
(* handleHome, one goroutine per request *)

\* the closure registered by serve is called
Accept(c) ==
    /\ pc = "listening"
    /\ c \in clients
    /\ req[c].at = "idle"
    /\ req' = [req EXCEPT ![c] = [at |-> "languages", i |-> 0]]
    /\ UNCHANGED <<out, envVars, appVars, funVars>>

LanguageProfile(c) ==
    /\ req[c].at = "languages"
    /\ out' = [out EXCEPT ![c].languages = languageProfile(Result)]
    /\ req' = [req EXCEPT ![c] = [at |-> "people", i |-> 0]]
    /\ UNCHANGED <<envVars, appVars, funVars>>

PeopleProfile(c) ==
    /\ req[c].at = "people"
    /\ \E order \in Perms(DOMAIN rollupOf(Result).m) :
          out' = [out EXCEPT ![c].people = peopleProfile(Result, order)]
    /\ req' = [req EXCEPT ![c] =
                  IF Len(Result) = 0 THEN [at |-> "done", i |-> 0]
                  ELSE [at |-> "stats", i |-> 0]]
    /\ UNCHANGED <<envVars, appVars, funVars>>

\* one pass of `for i := range stats { languageStat(config, &stats[i], w) }`
LanguageStat(c) ==
    /\ req[c].at = "stats"
    /\ LET i == req[c].i
       IN /\ out' = [out EXCEPT ![c].stats =
                        Append(@, languageStat(config, Result[i + 1]))]
          /\ req' = [req EXCEPT ![c] =
                        IF i + 1 = Len(Result) THEN [at |-> "done", i |-> 0]
                        ELSE [at |-> "stats", i |-> i + 1]]
    /\ UNCHANGED <<envVars, appVars, funVars>>

Handle == \E c \in Clients :
    Accept(c) \/ LanguageProfile(c) \/ PeopleProfile(c) \/ LanguageStat(c)

Next == RunLinguist \/ GetStats \/ Serve \/ Handle

Spec == Init /\ [][Next]_vars

SpecServe == InitServe /\ [][Next]_vars

----------------------------------------------------------------------------
(* The handlers on any snapshot getStats can return *)

RenderAuthors == {"a@x", "b@x", "c@x"}
GoCounts == {0, 1, 5, 14, 15, 50}
MarkdownCounts == {0, 500}
Thresholds == {0, DefaultThreshold}

\* the map m after the blame of files in which author a has cnt[a] lines
mapOfCounts(cnt) == [a \in {x \in DOMAIN cnt : cnt[x] > 0} |-> cnt[a]]

\* the bucket getStats appends for it
bucketOf(language, files, cnt, order) ==
    LET m == mapOfCounts(cnt)
        totalLines == SumSeq([i \in 1..Len(order) |-> cnt[order[i]]])
    IN [Language |-> language,
        Files |-> files,
        TotalLines |-> totalLines,
        Contributions |->
            sortContributions(contributionsOf(m, totalLines, order))]

RenderResults ==
    { sortLanguageStats(<< bucketOf("Go", <<FileA>>, go, order),
                           bucketOf("Markdown", <<FileVB>>, md, order) >>) :
        go \in [RenderAuthors -> GoCounts],
        md \in [RenderAuthors -> MarkdownCounts],
        order \in Perms(RenderAuthors) }

\* the server is listening; the run that led here is left out
InitRender ==
    /\ ignoreFile = [stat |-> NoFile, lines |-> <<>>]
    /\ linguist = [ok |-> TRUE, contents |-> <<>>]
    /\ blame = [f \in Files |-> [status |-> "ok", attr |-> <<>>]]
    /\ config \in [Threshold : Thresholds]
    /\ clients = {1}
    /\ pc = "listening"
    /\ err = NoError
    /\ contents = <<>>
    /\ Result \in RenderResults
    /\ nStats = 1
    /\ req = [c \in Clients |-> Idle]
    /\ out = [c \in Clients |-> NoOutput]
    /\ args = <<>>
    /\ ret = <<>>

SpecRender == InitRender /\ [][Handle]_vars

----------------------------------------------------------------------------
(* getIgnoreSettings and excludeWithGlob on their own *)

NotCalled == [called |-> FALSE]

InitFun ==
    /\ ignoreFile = [stat |-> NoFile, lines |-> <<>>]
    /\ linguist = [ok |-> TRUE, contents |-> <<>>]
    /\ blame = [f \in Files |-> [status |-> "ok", attr |-> <<>>]]
    /\ config = [Threshold |-> DefaultThreshold]
    /\ clients = {}
    /\ pc = "call"
    /\ err = NoError
    /\ contents = <<>>
    /\ Result = <<>>
    /\ nStats = 0
    /\ req = [c \in Clients |-> Idle]
    /\ out = [c \in Clients |-> NoOutput]
    /\ ret = NotCalled

InitIgnore ==
    /\ args \in [file : IgnoreFiles]
    /\ InitFun

CallGetIgnoreSettings ==
    /\ pc = "call"
    /\ ~ret.called
    /\ LET r == getIgnoreSettings(args.file)
       IN ret' = [called |-> TRUE, patterns |-> r.patterns, err |-> r.err]
    /\ UNCHANGED <<args, envVars, appVars, reqVars>>

SpecIgnore == InitIgnore /\ [][CallGetIgnoreSettings]_vars

\* the lines getIgnoreSettings can return
GlobPatterns == {l \in IgnoreLines : ~commentOrBlankRe(l)}

FileLists == {<<>>, <<FileA>>, <<FileVB>>, <<FileA, FileVB>>, <<FileVB, FileA>>}

Reorderings(s) == {[i \in 1..Len(s) |-> s[q[i]]] : q \in Perms(1..Len(s))}

\* a file list and two orderings of the same patterns
InitGlob ==
    /\ \E p \in SeqsUpTo(GlobPatterns, MaxPatterns) :
       \E q \in Reorderings(p) :
       \E f \in FileLists :
          args = [ignorePatterns |-> p, reordered |-> q, files |-> f]
    /\ InitFun

CallExcludeWithGlob ==
    /\ pc = "call"
    /\ ~ret.called
    /\ ret' = [called |-> TRUE,
               first |-> excludeWithGlob(args.ignorePatterns, args.files),
               second |-> excludeWithGlob(args.reordered, args.files)]
    /\ UNCHANGED <<args, envVars, appVars, reqVars>>

SpecGlob == InitGlob /\ [][CallExcludeWithGlob]_vars

----------------------------------------------------------------------------
(* Properties of the aggregation *)

\* getStats returned without error and runApp built the Result from it
Aggregated == pc \in {"serve", "listening"}

Indices(q) == 1..Len(q)

NlinesSum(cs) == SumSeq([j \in Indices(cs) |-> cs[j].Nlines])

\* the lines of file f that git blame attributes to mail
AttributedIn(f, mail) ==
    Cardinality({i \in Indices(blame[f].attr) : blame[f].attr[i] = mail})

\* ... summed over a file list
AttributedOver(files, mail) ==
    SumSeq([i \in Indices(files) |-> AttributedIn(files[i], mail)])

NonIncreasing(q) == \A i \in Indices(q) : \A j \in Indices(q) : i < j => q[i] >= q[j]

\* C1: in every bucket the Nlines of its Contribution records add up to
\* TotalLines, no identity has two records, every record's Nlines is the
\* number of lines attributed to its identity over all files of the bucket,
\* and every identity matched by the author-mail expression has a record.
C1_BucketTotals ==
    Aggregated =>
        \A b \in Indices(Result) :
            LET cs == Result[b].Contributions
            IN /\ NlinesSum(cs) = Result[b].TotalLines
               /\ \A i \in Indices(cs) : \A j \in Indices(cs) :
                      cs[i].Email = cs[j].Email => i = j
               /\ \A i \in Indices(cs) :
                      cs[i].Nlines = AttributedOver(Result[b].Files, cs[i].Email)
               /\ \A a \in BlamedMails :
                      AttributedOver(Result[b].Files, a) > 0
                          => \E i \in Indices(cs) : cs[i].Email = a

\* a bucket of two files in both of which the same identity has lines
C1_Witness ==
    /\ Aggregated
    /\ \E b \in Indices(Result) :
          /\ Len(Result[b].Files) = 2
          /\ \E i \in Indices(Result[b].Contributions) :
                /\ Result[b].Contributions[i].Nlines >= 3
                /\ \A k \in 1..2 :
                      AttributedIn(Result[b].Files[k],
                                   Result[b].Contributions[i].Email) > 0

\* C2: when git blame fails for a file of a bucket, getStats returns an
\* error: no Result is built and the listener is not started.
C2_BlameFailureAborts ==
    Aggregated =>
        \A b \in Indices(Result) :
            \A k \in Indices(Result[b].Files) :
                blame[Result[b].Files[k]].status = "ok"

\* peopleProfile has run for client c
PeopleDone(c) == req[c].at \in {"stats", "done"}

EmailsOf(stats) ==
    UNION {{stats[b].Contributions[j].Email : j \in Indices(stats[b].Contributions)} :
              b \in Indices(stats)}

NlinesOf(cs, mail) ==
    SumSeq([j \in Indices(cs) |-> IF cs[j].Email = mail THEN cs[j].Nlines ELSE 0])

GrandTotal(stats) == SumSeq([b \in Indices(stats) |-> stats[b].TotalLines])

\* C3: the rollup of peopleProfile has one record per identity of any
\* bucket, each with the sum of that identity's Nlines over all buckets;
\* its Nlines add up to the sum of the buckets' TotalLines; it is empty
\* when that sum is zero.
C3_Rollup ==
    \A c \in Clients :
        PeopleDone(c) =>
            LET rollup == out[c].people.contributions
            IN /\ {rollup[k].Email : k \in Indices(rollup)} = EmailsOf(Result)
               /\ Len(rollup) = Cardinality(EmailsOf(Result))
               /\ \A k \in Indices(rollup) :
                      rollup[k].Nlines =
                          SumSeq([b \in Indices(Result) |->
                                     NlinesOf(Result[b].Contributions, rollup[k].Email)])
               /\ NlinesSum(rollup) = GrandTotal(Result)
               /\ out[c].people.totalLines = GrandTotal(Result)
               /\ GrandTotal(Result) = 0 => rollup = <<>>

\* an identity with lines in two buckets has been rolled up
C3_Witness ==
    /\ PeopleDone(1)
    /\ \E a \in BlamedMails :
          /\ Cardinality({b \in Indices(Result) :
                             NlinesOf(Result[b].Contributions, a) > 0}) = 2
          /\ \E k \in Indices(out[1].people.contributions) :
                /\ out[1].people.contributions[k].Email = a
                /\ out[1].people.contributions[k].Nlines >= 3

\* C4: buckets are non-increasing in TotalLines, the Contributions of every
\* bucket and the rollup list are non-increasing in Nlines.
C4_Sorted ==
    /\ Aggregated =>
          /\ NonIncreasing([b \in Indices(Result) |-> Result[b].TotalLines])
          /\ \A b \in Indices(Result) :
                NonIncreasing([j \in Indices(Result[b].Contributions) |->
                                  Result[b].Contributions[j].Nlines])
    /\ \A c \in Clients :
          PeopleDone(c) =>
              NonIncreasing([k \in Indices(out[c].people.contributions) |->
                                out[c].people.contributions[k].Nlines])

\* three buckets of three different totals, a bucket of two records, and a
\* rollup of two records of different Nlines
C4_Witness ==
    /\ PeopleDone(1)
    /\ Len(Result) = 3
    /\ Result[1].TotalLines > Result[2].TotalLines
    /\ Result[2].TotalLines > Result[3].TotalLines
    /\ \E b \in Indices(Result) : Len(Result[b].Contributions) = 2
    /\ Len(out[1].people.contributions) = 2
    /\ out[1].people.contributions[1].Nlines > out[1].people.contributions[2].Nlines

\* the ignore patterns of the run
RunPatterns == getIgnoreSettings(ignoreFile).patterns

MatchesSome(f) ==
    \E j \in Indices(RunPatterns) : doublestarMatch(RunPatterns[j], f) = MatchTrue

NotExcluded(f) == ~MatchesSome(f)

\* the lines of f that count: those whose author-mail is not empty
CountedLines(f) ==
    Cardinality({i \in Indices(blame[f].attr) : blame[f].attr[i] # ""})

\* C6: one LanguageStat per language key of the classifier mapping; its
\* Files are the classifier's list without the files that match an ignore
\* pattern, in the original order; only those files count in TotalLines and
\* Contributions; a language whose files are all excluded has an empty
\* bucket.
C6_Buckets ==
    Aggregated =>
        /\ Len(Result) = Cardinality(DOMAIN contents)
        /\ {Result[b].Language : b \in Indices(Result)} = DOMAIN contents
        /\ \A b \in Indices(Result) :
              LET kept == SelectSeq(contents[Result[b].Language], NotExcluded)
              IN /\ Result[b].Files = kept
                 /\ Result[b].TotalLines =
                        SumSeq([k \in Indices(kept) |-> CountedLines(kept[k])])
                 /\ \A j \in Indices(Result[b].Contributions) :
                        \E k \in Indices(kept) :
                            AttributedIn(kept[k], Result[b].Contributions[j].Email) > 0
                 /\ kept = <<>> =>
                        /\ Result[b].TotalLines = 0
                        /\ Result[b].Contributions = <<>>

\* a language all of whose files are excluded although they have lines, and
\* a language that keeps one of its two files
C6_Witness ==
    /\ Aggregated
    /\ \E b \in Indices(Result) :
          /\ contents[Result[b].Language] # <<>>
          /\ Result[b].Files = <<>>
          /\ CountedLines(contents[Result[b].Language][1]) > 0
          /\ Result[b].TotalLines = 0

C6_WitnessPartial ==
    /\ Aggregated
    /\ \E b \in Indices(Result) :
          /\ Len(contents[Result[b].Language]) = 2
          /\ Len(Result[b].Files) = 1
          /\ Result[b].TotalLines > 0

----------------------------------------------------------------------------
(* Properties of the rendered tables *)

\* the rule of peopleProfile, on the rollup of grand total `total`
PeopleRule(c, total) == c.Nlines < 50 /\ c.Nlines * 100 < 10 * total

\* the rule of languageStat
LanguageRule(c) == c.Nlines < config.Threshold

\* table was rendered from list, of whose entries those at the indices in
\* below are below the threshold rule
CollapseTrigger(list, table, below) ==
    LET n == Len(list)
    IN /\ Len(table.others) <= 1
       /\ Cardinality(below) >= 2 => Len(table.others) = 1
       /\ below = {} => table.others = <<>>
       /\ below = {n} =>
             /\ table.others = <<>>
             /\ Len(table.rows) = n
             /\ table.rows[n].Email = list[n].Email
       /\ table.others # <<>> => table.others[1].N >= 2
       /\ Len(table.rows) + (IF table.others = <<>> THEN 0 ELSE table.others[1].N) = n

PeopleBelow(c) ==
    {i \in Indices(out[c].people.contributions) :
        PeopleRule(out[c].people.contributions[i], out[c].people.totalLines)}

LanguageBelow(b) ==
    {j \in Indices(Result[b].Contributions) : LanguageRule(Result[b].Contributions[j])}

\* C5: a rendered table has exactly one "N others" row when at least two
\* entries are below the threshold rule and none when no entry is; an entry
\* below the rule that is the last of the list is written as a row of its
\* own; an "N others" row stands for at least two entries.
C5_CollapseTrigger ==
    \A c \in Clients :
        /\ PeopleDone(c) =>
              CollapseTrigger(out[c].people.contributions, out[c].people.table,
                              PeopleBelow(c))
        /\ \A b \in Indices(out[c].stats) :
              CollapseTrigger(Result[b].Contributions, out[c].stats[b].table,
                              LanguageBelow(b))

\* the people table with an "N others" row behind a row of its own, next to
\* a language table whose last entry alone is below the threshold
C5_Witness ==
    /\ req[1].at = "done"
    /\ out[1].people.table.others # <<>>
    /\ out[1].people.table.rows # <<>>
    /\ Cardinality(PeopleBelow(1)) = 2
    /\ \E b \in Indices(out[1].stats) :
          /\ Len(Result[b].Contributions) >= 2
          /\ LanguageBelow(b) = {Len(Result[b].Contributions)}

\* table was rendered from list (percentages over `total` lines); k is the
\* number of rows written before the "N others" row
CollapseContent(list, table, below, total) ==
    table.others # <<>> =>
        LET n == Len(list)
            k == Len(table.rows)
            emitted == SumSeq([i \in 1..k |-> list[i].Nlines])
        IN /\ k + 1 \in below
           /\ k + 1 < n
           /\ \A i \in 1..k : i \notin below
           /\ \A i \in 1..k :
                 /\ table.rows[i].Email = list[i].Email
                 /\ table.rows[i].Nlines = list[i].Nlines
                 /\ table.rows[i].Percent = formatPercent(list[i].Percentage)
           /\ table.others[1].N = n - k
           /\ table.remainingPercentage.num * total =
                  (100 * total - 100 * emitted) * table.remainingPercentage.den
           /\ table.others[1].Percent = formatPercent(table.remainingPercentage)

\* the printed percentages of the rows and of the "N others" row add up to 100
DisplayedTotal100(table) ==
    table.others # <<>> =>
        SumSeq([i \in Indices(table.rows) |-> Hundredths(table.rows[i].Percent)])
            + Hundredths(table.others[1].Percent) = 10000

\* C8 (as amended): when the walk stops at index k, the k entries before it
\* are written in order, the "N others" row counts n - k entries and its
\* percentage is formatPercent of 100 minus the sum of the unrounded
\* percentages of the written entries.
C8_CollapseContent ==
    \A c \in Clients :
        /\ PeopleDone(c) =>
              CollapseContent(out[c].people.contributions, out[c].people.table,
                              PeopleBelow(c), out[c].people.totalLines)
        /\ \A b \in Indices(out[c].stats) :
              CollapseContent(Result[b].Contributions, out[c].stats[b].table,
                              LanguageBelow(b), Result[b].TotalLines)

\* C8 (as stated): ... and the printed percentages of the written rows plus
\* the "N others" row add up to 100.
C8_DisplayedTotal ==
    /\ C8_CollapseContent
    /\ \A c \in Clients :
          /\ PeopleDone(c) => DisplayedTotal100(out[c].people.table)
          /\ \A b \in Indices(out[c].stats) :
                DisplayedTotal100(out[c].stats[b].table)

\* both kinds of table with a row before an "N others" row
C8_Witness ==
    /\ req[1].at = "done"
    /\ out[1].people.table.others # <<>>
    /\ Len(out[1].people.table.rows) >= 1
    /\ \E b \in Indices(out[1].stats) :
          /\ out[1].stats[b].table.others # <<>>
          /\ Len(out[1].stats[b].table.rows) >= 1
          /\ out[1].stats[b].table.others[1].N = 2

----------------------------------------------------------------------------
(* Properties of the server *)

Rendered(c) ==
    /\ out[c].languages = languageProfile(Result)
    /\ out[c].stats = [b \in Indices(Result) |-> languageStat(config, Result[b])]
    /\ \E order \in Perms(DOMAIN rollupOf(Result).m) :
          out[c].people = peopleProfile(Result, order)

\* the listener is started only after getStats ran once, without an error
C7_ComputedOnce ==
    /\ pc \in {"serve", "listening"} => nStats = 1 /\ err = NoError /\ linguist.ok
    /\ (\E c \in Clients : req[c].at # "idle") => pc = "listening"
    /\ \A c \in Clients : req[c].at = "done" => Rendered(c)

\* no step of a handler changes the Result or the Config
C7_HandlersOnlyRead ==
    (pc = "listening") => (Result' = Result /\ config' = config /\ pc' = pc)

\* C7: the ResultSet is computed once, before the listener is started; the
\* listener is not started after an error; no handler changes the Result or
\* the Config, and every request is rendered from that snapshot.
C7_Snapshot == [](C7_ComputedOnce) /\ [][C7_HandlersOnlyRead]_vars

\* two requests in flight at once, one of them behind the other
C7_Witness ==
    /\ pc = "listening"
    /\ Len(Result) >= 2
    /\ req[1].at = "stats"
    /\ req[1].i = 1
    /\ req[2].at = "people"

----------------------------------------------------------------------------
(* Properties of the ignore list *)

\* C9: the outcome of excludeWithGlob is the same for two orderings of the
\* same patterns.
C9_OrderIndependent ==
    ret.called => ret.first = ret.second

IsBlank(line) == \A j \in Indices(line) : IsSpace(line[j])

IsComment(line) ==
    \E i \in Indices(line) : line[i] = "#" /\ \A j \in 1..(i - 1) : IsSpace(line[j])

IsPattern(line) == ~IsBlank(line) /\ ~IsComment(line)

\* C10: getIgnoreSettings returns, in file order, the lines that are neither
\* blank nor comments; no blank line is among them; a missing file gives
\* the empty list and no error.
C10_NoBlankPatterns ==
    ret.called =>
        /\ args.file.stat = NoFile => ret.patterns = <<>> /\ ret.err = NoError
        /\ args.file.stat = StatOk =>
              /\ ret.err = NoError
              /\ ret.patterns = SelectSeq(args.file.lines, IsPattern)
              /\ \A i \in Indices(ret.patterns) : ~IsBlank(ret.patterns[i])

====
